---- MODULE Spec2Model ----
(***************************************************************************)
(* Chunked file identification (file_api/libs/file_lib.cc) and the CVS     *)
(* detection option (ips_options/ips_cvs.cc).                              *)
(*                                                                         *)
(* Two state machines share the module:                                    *)
(*   Spec     one FileContext receiving chunks (type id, SHA256, setters)  *)
(*   SpecCvs  CvsOption::eval scanning one packet payload line by line     *)
(*   SpecOpt  CvsOption objects built from rule text and compared          *)
(*   SpecLimit get_data_size_from_depth_limit over the whole range of its  *)
(*            arguments                                                    *)
(***************************************************************************)
EXTENDS Integers, Sequences, FiniteSets, TLC

VARIABLES
    context,      \* the FileContext structure (record of its fields)
    nops,         \* number of operations applied to the context so far
    last,         \* what the most recent operation on the context did: the
                  \* classifier's call (find) and answer, SHA256_Update's call
    stream,       \* chunk sequence seen by file_signature_sha256 so far
    crashed,      \* a NULL FileConfig was dereferenced
    packet,       \* the Packet handed to CvsOption::eval (or NULL)
    config,       \* CvsOption::config, the CvsRuleOption of the option
    pc,           \* position of eval: "idle", "scan" or "done"
    line,         \* CvsDecode: offset of the current line in the payload
    rval,         \* the value eval returned
    reads,        \* payload offsets read by the current eval
    steps,        \* iterations of the CvsDecode loop in the current eval
    built,        \* the two options built last: rule text, object, error
    same,         \* what comparing the two options gave (NULL: not compared)
    limit         \* a call of get_data_size_from_depth_limit and its result

fileVars == <<context, nops, last, stream, crashed>>
cvsVars  == <<packet, config, pc, line, rval, reads, steps>>
optVars  == <<built, same>>
limVars  == <<limit>>
vars     == <<context, nops, last, stream, crashed,
              packet, config, pc, line, rval, reads, steps, built, same, limit>>

\* A pointer is NULL or points to a value.
NULL == <<>>
Ptr(x) == <<x>>
Deref(p) == p[1]

(***************************************************************************)
(* Bounds of the model.                                                    *)
(***************************************************************************)
MaxChunkLen == 2      \* longest enumerated chunk (BigChunk is added to them)
MaxOps      == 3      \* operations applied to one context
U64Bits     == 6      \* scaled width of uint64_t (processed_bytes, max_depth)
IntBits     == 5      \* scaled width of int (data_size)

U64Mod == 2 ^ U64Bits
IntMod == 2 ^ IntBits

\* uint64_t arithmetic wraps modulo 2^width
ToU64(x) == x % U64Mod

\* the narrowing cast (int)x of an unsigned value
ToInt(x) ==
    LET r == x % IntMod
    IN  IF r >= IntMod \div 2 THEN r - IntMod ELSE r

(***************************************************************************)
(* Chunks                                                                  *)
(***************************************************************************)
\* the 10-byte chunk of the depth scenario
BigChunk == <<"a", "b", "c", "d", "e", "f", "g", "h", "i", "j">>

\* the chunks delivered: the short ones (one of each length) and the big one
Chunks == {SubSeq(BigChunk, 1, n) : n \in 0..MaxChunkLen} \cup {BigChunk}

SNORT_FILE_START  == "SNORT_FILE_START"
SNORT_FILE_MIDDLE == "SNORT_FILE_MIDDLE"
SNORT_FILE_END    == "SNORT_FILE_END"
SNORT_FILE_FULL   == "SNORT_FILE_FULL"
SNORT_FILE_POSITION_UNKNOWN == "SNORT_FILE_POSITION_UNKNOWN"

\* the positions that mark a chunk of a stream
FilePosition == {SNORT_FILE_START, SNORT_FILE_MIDDLE, SNORT_FILE_END,
                 SNORT_FILE_FULL}

SNORT_FILE_TYPE_ID == "SNORT_FILE_TYPE_ID"
SNORT_FILE_SHA256  == "SNORT_FILE_SHA256"
SNORT_FILE_CAPTURE == "SNORT_FILE_CAPTURE"

FileProcessType == {SNORT_FILE_TYPE_ID, SNORT_FILE_SHA256, SNORT_FILE_CAPTURE}

SNORT_FILE_TYPE_CONTINUE == "SNORT_FILE_TYPE_CONTINUE"
SNORT_FILE_TYPE_UNKNOWN  == "SNORT_FILE_TYPE_UNKNOWN"

\* a concrete file type id of a magic rule
FILE_TYPE_A == "FILE_TYPE_A"

FileTypeIds == {SNORT_FILE_TYPE_CONTINUE, SNORT_FILE_TYPE_UNKNOWN, FILE_TYPE_A}

(***************************************************************************)
(* FileConfig: the depths of the two kinds of processing                   *)
(***************************************************************************)
FileConfigs ==
    {Ptr([file_type_depth |-> 2, file_signature_depth |-> 3]),
     Ptr([file_type_depth |-> 5, file_signature_depth |-> 5])}

(***************************************************************************)
(* SHA256 (hash/hashes.h), abstracted as a collision free digest: the      *)
(* state is the chaining value it started from and the input absorbed.     *)
(***************************************************************************)
PAD == "PAD"

\* SnortAlloc returns zeroed memory: a SHA256_CTX that was never initialised
SnortAlloc == [iv |-> FALSE, absorbed |-> <<>>]

SHA256INIT(c) == [iv |-> TRUE, absorbed |-> <<>>]

SHA256UPDATE(c, file_data, data_size) ==
    [c EXCEPT !.absorbed = @ \o SubSeq(file_data, 1, data_size)]

\* the 32 bytes SHA256_Final writes
SHA256FINAL_md(c) == [iv |-> c.iv, msg |-> c.absorbed]

\* the SHA256_CTX SHA256_Final leaves behind: the padding was absorbed
SHA256FINAL_ctx(c) == [c EXCEPT !.absorbed = Append(@, PAD)]

(***************************************************************************)
(* FileContext                                                             *)
(***************************************************************************)
\* the length a callee was called with: NoCall when it was not called
NoCall == <<>>
Called(n) == <<n>>

\* a context as the caller creates it (zeroed), attached to a configuration
FreshContext(file_config) ==
    [file_config            |-> file_config,
     processed_bytes        |-> 0,
     file_type_id           |-> SNORT_FILE_TYPE_CONTINUE,
     file_type_context      |-> NULL,
     file_signature_context |-> NULL,
     sha256                 |-> NULL]

\* get_data_size_from_depth_limit with the clamp left out
depth_limit_without_clamp(ctx, type, data_size) ==
    LET file_config == ctx.file_config
    IN  IF file_config = NULL THEN data_size
        ELSE IF type \notin {SNORT_FILE_TYPE_ID, SNORT_FILE_SHA256} THEN data_size
        ELSE LET max_depth == IF type = SNORT_FILE_TYPE_ID
                              THEN Deref(file_config).file_type_depth
                              ELSE Deref(file_config).file_signature_depth
             IN  IF ctx.processed_bytes > max_depth THEN -1 ELSE data_size

\* get_data_size_from_depth_limit stopping at the depth instead of past it
depth_limit_stop_at_depth(ctx, type, data_size) ==
    LET file_config == ctx.file_config
    IN  IF file_config = NULL THEN data_size
        ELSE IF type \notin {SNORT_FILE_TYPE_ID, SNORT_FILE_SHA256} THEN data_size
        ELSE LET max_depth == IF type = SNORT_FILE_TYPE_ID
                              THEN Deref(file_config).file_type_depth
                              ELSE Deref(file_config).file_signature_depth
             IN  IF ctx.processed_bytes >= max_depth THEN -1
                 ELSE IF ToU64(ctx.processed_bytes + data_size) > max_depth
                      THEN ToInt(ToU64(max_depth - ctx.processed_bytes))
                      ELSE data_size

\* get_data_size_from_depth_limit without the stop of line 70-71
depth_limit_without_stop(ctx, type, data_size) ==
    LET file_config == ctx.file_config
    IN  IF file_config = NULL THEN data_size
        ELSE IF type \notin {SNORT_FILE_TYPE_ID, SNORT_FILE_SHA256} THEN data_size
        ELSE LET max_depth == IF type = SNORT_FILE_TYPE_ID
                              THEN Deref(file_config).file_type_depth
                              ELSE Deref(file_config).file_signature_depth
             IN  IF ToU64(ctx.processed_bytes + data_size) > max_depth
                 THEN ToInt(ToU64(max_depth - ctx.processed_bytes))
                 ELSE data_size

get_data_size_from_depth_limit(ctx, type, data_size) ==
    LET file_config == ctx.file_config
    IN  IF file_config = NULL THEN data_size
        ELSE IF type \notin {SNORT_FILE_TYPE_ID, SNORT_FILE_SHA256} THEN data_size
        ELSE LET max_depth == IF type = SNORT_FILE_TYPE_ID
                              THEN Deref(file_config).file_type_depth
                              ELSE Deref(file_config).file_signature_depth
             IN  IF ctx.processed_bytes > max_depth THEN -1
                 ELSE IF ToU64(ctx.processed_bytes + data_size) > max_depth
                      THEN ToInt(ToU64(max_depth - ctx.processed_bytes))
                      ELSE data_size

\* What file_config->find_file_type_id may answer: a type id, and the
\* continuation state it leaves in context->file_type_context.
FindResults ==
    {[id |-> SNORT_FILE_TYPE_CONTINUE, file_type_context |-> Ptr("node")],
     [id |-> SNORT_FILE_TYPE_UNKNOWN,  file_type_context |-> NULL],
     [id |-> FILE_TYPE_A,              file_type_context |-> NULL]}

\* type_pending without the test of line 87
type_pending_always(ctx) == TRUE

\* line 87: type identification has not concluded yet
type_pending(ctx) == ctx.file_type_id = SNORT_FILE_TYPE_CONTINUE

\* lines 98-120: the switch on position, data_size being the limited length.
\* START and FULL reset the continuation state before the classifier runs;
\* END and FULL turn an undecided answer into UNKNOWN.
type_switch(ctx, data_size, position, r) ==
    LET called == [ctx |-> [ctx EXCEPT !.file_type_id = r.id,
                                       !.file_type_context = r.file_type_context],
                   find |-> Called(data_size), fault |-> FALSE]
        final  == [called EXCEPT !.ctx.file_type_id =
                       IF @ = SNORT_FILE_TYPE_CONTINUE
                       THEN SNORT_FILE_TYPE_UNKNOWN ELSE @]
    IN  IF position \notin {SNORT_FILE_START, SNORT_FILE_MIDDLE,
                            SNORT_FILE_END, SNORT_FILE_FULL}
        THEN [ctx |-> ctx, find |-> NoCall, fault |-> FALSE]
        ELSE IF ctx.file_config = NULL
        THEN [ctx |-> IF position \in {SNORT_FILE_START, SNORT_FILE_FULL}
                      THEN [ctx EXCEPT !.file_type_context = NULL] ELSE ctx,
              find |-> NoCall, fault |-> TRUE]
        ELSE CASE position = SNORT_FILE_START  -> called
               [] position = SNORT_FILE_MIDDLE -> called
               [] position = SNORT_FILE_END    -> final
               [] position = SNORT_FILE_FULL   -> final

\* file_type_id resetting the continuation state when the depth limit stops it
file_type_id_stop_resetting(ctx, file_data, data_size, position, r) ==
    LET limited == get_data_size_from_depth_limit(ctx, SNORT_FILE_TYPE_ID, data_size)
        quiet   == [ctx |-> ctx, find |-> NoCall, fault |-> FALSE]
    IN  IF ~type_pending(ctx) THEN quiet
        ELSE IF limited < 0
             THEN [quiet EXCEPT !.ctx.file_type_id = SNORT_FILE_TYPE_UNKNOWN,
                                !.ctx.file_type_context = NULL]
        ELSE type_switch(ctx, limited, position, r)

\* file_type_id: the context afterwards (ctx), the length the classifier was
\* called with (find, NoCall when it was not called), and whether the NULL
\* file_config was dereferenced (fault).  r is the classifier's answer.
file_type_id(ctx, file_data, data_size, position, r) ==
    LET limited == get_data_size_from_depth_limit(ctx, SNORT_FILE_TYPE_ID, data_size)
        quiet   == [ctx |-> ctx, find |-> NoCall, fault |-> FALSE]
    IN  IF ~type_pending(ctx) THEN quiet
        ELSE IF limited < 0
             THEN [quiet EXCEPT !.ctx.file_type_id = SNORT_FILE_TYPE_UNKNOWN]
        ELSE type_switch(ctx, limited, position, r)

\* the SHA256_CTX the MIDDLE and END cases work on: allocated when absent
signature_context(ctx) ==
    IF ctx.file_signature_context = NULL
    THEN SnortAlloc ELSE Deref(ctx.file_signature_context)

\* case SNORT_FILE_START
sha256_start(ctx, file_data, data_size) ==
    [ctx EXCEPT !.file_signature_context =
        Ptr(SHA256UPDATE(SHA256INIT(SnortAlloc), file_data, data_size))]

\* sha256_middle finalising like the END case
sha256_middle_finalising(ctx, file_data, data_size) ==
    LET c == SHA256UPDATE(signature_context(ctx), file_data, data_size)
    IN  [ctx EXCEPT !.file_signature_context = Ptr(SHA256FINAL_ctx(c)),
                    !.sha256 = Ptr(SHA256FINAL_md(c))]

\* sha256_middle starting a new digest like the START case
sha256_middle_restarting(ctx, file_data, data_size) ==
    [ctx EXCEPT !.file_signature_context =
        Ptr(SHA256UPDATE(SHA256INIT(SnortAlloc), file_data, data_size))]

\* case SNORT_FILE_MIDDLE
sha256_middle(ctx, file_data, data_size) ==
    [ctx EXCEPT !.file_signature_context =
        Ptr(SHA256UPDATE(signature_context(ctx), file_data, data_size))]

\* case SNORT_FILE_END
sha256_end(ctx, file_data, data_size) ==
    LET c == SHA256UPDATE(signature_context(ctx), file_data, data_size)
    IN  [ctx EXCEPT !.file_signature_context = Ptr(SHA256FINAL_ctx(c)),
                    !.sha256 = Ptr(SHA256FINAL_md(c))]

\* case SNORT_FILE_FULL
sha256_full(ctx, file_data, data_size) ==
    LET c == SHA256UPDATE(SHA256INIT(SnortAlloc), file_data, data_size)
    IN  [ctx EXCEPT !.file_signature_context = Ptr(SHA256FINAL_ctx(c)),
                    !.sha256 = Ptr(SHA256FINAL_md(c))]

\* file_signature_sha256 finalising the signature when the depth limit stops
\* an END or FULL chunk
file_signature_sha256_final_on_stop(ctx, file_data, data_size, position) ==
    LET limited == get_data_size_from_depth_limit(ctx, SNORT_FILE_SHA256, data_size)
        quiet   == [ctx |-> ctx, update |-> NoCall]
    IN  IF limited < 0
        THEN IF position \in {SNORT_FILE_END, SNORT_FILE_FULL}
             THEN [ctx |-> sha256_end(ctx, file_data, 0), update |-> NoCall]
             ELSE quiet
        ELSE CASE position = SNORT_FILE_START ->
                    [ctx |-> sha256_start(ctx, file_data, limited),
                     update |-> Called(limited)]
               [] position = SNORT_FILE_MIDDLE ->
                    [ctx |-> sha256_middle(ctx, file_data, limited),
                     update |-> Called(limited)]
               [] position = SNORT_FILE_END ->
                    [ctx |-> sha256_end(ctx, file_data, limited),
                     update |-> Called(limited)]
               [] position = SNORT_FILE_FULL ->
                    [ctx |-> sha256_full(ctx, file_data, limited),
                     update |-> Called(limited)]
               [] OTHER -> quiet

\* file_signature_sha256: the context afterwards (ctx) and the length given to
\* SHA256_Update (update, NoCall when it was not called).
file_signature_sha256(ctx, file_data, data_size, position) ==
    LET limited == get_data_size_from_depth_limit(ctx, SNORT_FILE_SHA256, data_size)
        quiet   == [ctx |-> ctx, update |-> NoCall]
    IN  IF limited < 0 THEN quiet
        ELSE CASE position = SNORT_FILE_START ->
                    [ctx |-> sha256_start(ctx, file_data, limited),
                     update |-> Called(limited)]
               [] position = SNORT_FILE_MIDDLE ->
                    [ctx |-> sha256_middle(ctx, file_data, limited),
                     update |-> Called(limited)]
               [] position = SNORT_FILE_END ->
                    [ctx |-> sha256_end(ctx, file_data, limited),
                     update |-> Called(limited)]
               [] position = SNORT_FILE_FULL ->
                    [ctx |-> sha256_full(ctx, file_data, limited),
                     update |-> Called(limited)]
               [] OTHER -> quiet

file_sig_sha256_set(ctx, signature) == [ctx EXCEPT !.sha256 = signature]

\* signatures a caller may install with file_sig_sha256_set
Signatures == {NULL, Ptr([iv |-> TRUE, msg |-> <<"j">>])}

(***************************************************************************)
(* The chunks delivered to the context so far.  shape follows the position *)
(* markers: "fresh" before the first chunk, "open" after Start Middle*,    *)
(* "closed" once an End or a Whole chunk ended the stream, "broken" when   *)
(* the markers do not delimit one stream.  exact holds while every chunk   *)
(* went to file_signature_sha256 and the depth limit cut none of them;    *)
(* bytes is then the content delivered.                                    *)
(***************************************************************************)
NoStream == [shape |-> "fresh", exact |-> TRUE, bytes |-> <<>>]

NextShape(shape, position) ==
    CASE position = SNORT_FILE_START  /\ shape = "fresh" -> "open"
      [] position = SNORT_FILE_MIDDLE /\ shape = "open"  -> "open"
      [] position = SNORT_FILE_END    /\ shape = "open"  -> "closed"
      [] position = SNORT_FILE_FULL   /\ shape = "fresh" -> "closed"
      [] OTHER -> "broken"

NextStream(st, file_data, position, uncut) ==
    LET exact == st.exact /\ uncut
    IN  [shape |-> NextShape(st.shape, position),
         exact |-> exact,
         bytes |-> IF exact THEN st.bytes \o file_data ELSE <<>>]

(***************************************************************************)
(* Operations on the context                                               *)
(***************************************************************************)
NoOp == [op |-> "none", position |-> "none", find |-> NoCall, answer |-> "none",
         update |-> NoCall]

\* The caller advances processed_bytes by the size of the chunk it delivered.
update_processed_bytes(ctx, data_size) ==
    [ctx EXCEPT !.processed_bytes = ToU64(@ + data_size)]

\* One chunk delivered for type identification.
TypeChunk ==
    \E file_data \in Chunks, position \in FilePosition, r \in FindResults :
        LET data_size == Len(file_data)
            t == file_type_id(context, file_data, data_size, position, r)
        IN  /\ ~crashed
            /\ nops < MaxOps
            /\ context.processed_bytes + data_size < U64Mod
            /\ crashed' = t.fault
            /\ context' = IF t.fault THEN t.ctx
                          ELSE update_processed_bytes(t.ctx, data_size)
            /\ nops' = nops + 1
            /\ last' = [op |-> "file_type_id", position |-> position,
                        find |-> t.find,
                        answer |-> IF t.find = NoCall THEN "none" ELSE r.id,
                        update |-> NoCall]
            /\ stream' = NextStream(stream, file_data, position, FALSE)
            /\ UNCHANGED cvsVars
            /\ UNCHANGED optVars
            /\ UNCHANGED limVars

\* One chunk delivered for signature computation.
SignatureChunk ==
    \E file_data \in Chunks, position \in FilePosition :
        LET data_size == Len(file_data)
            s == file_signature_sha256(context, file_data, data_size, position)
        IN  /\ ~crashed
            /\ nops < MaxOps
            /\ context.processed_bytes + data_size < U64Mod
            /\ context' = update_processed_bytes(s.ctx, data_size)
            /\ nops' = nops + 1
            /\ last' = [op |-> "file_signature_sha256", position |-> position,
                        find |-> NoCall, answer |-> "none", update |-> s.update]
            /\ stream' = NextStream(stream, file_data, position,
                                    s.update = Called(data_size))
            /\ UNCHANGED crashed
            /\ UNCHANGED cvsVars
            /\ UNCHANGED optVars
            /\ UNCHANGED limVars

FileSigSha256Set ==
    \E signature \in Signatures :
        /\ ~crashed
        /\ nops < MaxOps
        /\ context' = file_sig_sha256_set(context, signature)
        /\ nops' = nops + 1
        /\ last' = [NoOp EXCEPT !.op = "file_sig_sha256_set"]
        /\ stream' = [stream EXCEPT !.exact = FALSE, !.bytes = <<>>]
        /\ UNCHANGED crashed
        /\ UNCHANGED cvsVars
        /\ UNCHANGED optVars
        /\ UNCHANGED limVars

\* lines 82-85 with context NULL: context->file_config is read before the
\* test of context, so the call faults or, the read being unused, returns
file_type_id_null == {TRUE, FALSE}

\* lines 126-127 with context NULL: the call returns
file_signature_sha256_null == {FALSE}

\* file_type_id or file_signature_sha256 called without a context
NullContext ==
    \E op \in {"file_type_id", "file_signature_sha256"} :
        /\ ~crashed
        /\ nops < MaxOps
        /\ crashed' \in IF op = "file_type_id" THEN file_type_id_null
                        ELSE file_signature_sha256_null
        /\ nops' = nops + 1
        /\ last' = [NoOp EXCEPT !.op = op \o "(NULL)"]
        /\ UNCHANGED <<context, stream>>
        /\ UNCHANGED cvsVars
        /\ UNCHANGED optVars
        /\ UNCHANGED limVars

FileInit ==
    /\ context \in {FreshContext(c) : c \in FileConfigs \cup {NULL}}
    /\ nops = 0
    /\ last = NoOp
    /\ stream = NoStream
    /\ crashed = FALSE

(***************************************************************************)
(* ips_cvs.cc: the payload is a sequence of bytes, a pointer into it is an *)
(* offset from its first byte (end = data_len), and every helper returns,  *)
(* with its result, the set of offsets it read.                            *)
(***************************************************************************)
CVS_COMMAND_DELIMITER == "\n"
CVS_COMMAND_SEPARATOR == " "
CVS_ENTRY_STR == <<"E", "n", "t", "r", "y">>

CVS_ENTRY_VALID   == 0
CVS_ENTRY_INVALID == 1
CVS_INVALID_ENTRY == 1

DETECTION_OPTION_NO_MATCH == "DETECTION_OPTION_NO_MATCH"
DETECTION_OPTION_MATCH    == "DETECTION_OPTION_MATCH"

\* *ptr: the byte at an offset.  An offset outside the payload reads memory
\* that is not the payload's.
Byte(data, ptr) ==
    IF ptr \in 0 .. Len(data) - 1 THEN data[ptr + 1] ELSE "outside"

Min(S) == CHOOSE x \in S : \A y \in S : x <= y

\* memchr(ptr, c, n): the first offset in [ptr, ptr + n) holding c, or NULL
memchr(data, ptr, c, n) ==
    LET hits == {i \in ptr .. ptr + n - 1 : Byte(data, i) = c}
    IN  IF hits = {}
        THEN [p |-> NULL, reads |-> ptr .. ptr + n - 1]
        ELSE [p |-> Ptr(Min(hits)), reads |-> ptr .. Min(hits)]

\* memcmp(ptr, cmd, n) == 0
memcmp_equal(data, ptr, cmd, n) ==
    \A i \in 0 .. n - 1 : i + 1 <= Len(cmd) /\ Byte(data, ptr + i) = cmd[i + 1]

\* CvsGetEOL leaving eol on the delimiter instead of after it
CvsGetEOL_on_marker(data, ptr, end) ==
    LET m == memchr(data, ptr, CVS_COMMAND_DELIMITER, end - ptr)
    IN  IF m.p = NULL
        THEN [eolm |-> end, eol |-> end, reads |-> m.reads]
        ELSE [eolm |-> Deref(m.p), eol |-> Deref(m.p), reads |-> m.reads]

CvsGetEOL(data, ptr, end) ==
    LET m == memchr(data, ptr, CVS_COMMAND_DELIMITER, end - ptr)
    IN  IF m.p = NULL
        THEN [eolm |-> end, eol |-> end, reads |-> m.reads]
        ELSE [eolm |-> Deref(m.p), eol |-> Deref(m.p) + 1, reads |-> m.reads]

\* CvsGetCommand on a line that is not NULL
CvsGetCommand(data, ln, end) ==
    LET m == memchr(data, ln, CVS_COMMAND_SEPARATOR, end - ln)
    IN  IF m.p # NULL
        THEN [cmd_str |-> Ptr(ln), cmd_str_len |-> Deref(m.p) - ln,
              cmd_arg |-> Ptr(Deref(m.p) + 1),
              cmd_arg_len |-> end - Deref(m.p) - 1,
              reads |-> m.reads]
        ELSE [cmd_str |-> Ptr(ln), cmd_str_len |-> end - ln,
              cmd_arg |-> NULL, cmd_arg_len |-> 0,
              reads |-> m.reads]

\* the lower case of the letters of the command names
Lower(c) ==
    CASE c = "E" -> "e" [] c = "N" -> "n" [] c = "T" -> "t"
      [] c = "R" -> "r" [] c = "Y" -> "y" [] OTHER -> c

LowerSeq(q) == [i \in 1 .. Len(q) |-> Lower(q[i])]

\* CvsCmdCompare comparing without regard to letter case (strncasecmp)
CvsCmdCompare_ignoring_case(cmd, data, pkt_cmd, pkt_cmd_len) ==
    IF pkt_cmd_len # Len(cmd)
    THEN [ret |-> 1, reads |-> {}]
    ELSE [ret   |-> IF \A i \in 0 .. pkt_cmd_len - 1 :
                           Lower(Byte(data, pkt_cmd + i)) = Lower(cmd[i + 1])
                    THEN 0 ELSE 1,
          reads |-> pkt_cmd .. pkt_cmd + pkt_cmd_len - 1]

\* CvsCmdCompare comparing strlen(cmd) bytes whatever the length of pkt_cmd
CvsCmdCompare_unchecked_length(cmd, data, pkt_cmd, pkt_cmd_len) ==
    [ret   |-> IF memcmp_equal(data, pkt_cmd, cmd, Len(cmd)) THEN 0 ELSE 1,
     reads |-> pkt_cmd .. pkt_cmd + Len(cmd) - 1]

\* CvsCmdCompare: 0 if equal, 1 if not
CvsCmdCompare(cmd, data, pkt_cmd, pkt_cmd_len) ==
    IF pkt_cmd_len # Len(cmd)
    THEN [ret |-> 1, reads |-> {}]
    ELSE [ret   |-> IF memcmp_equal(data, pkt_cmd, cmd, pkt_cmd_len) THEN 0 ELSE 1,
          reads |-> pkt_cmd .. pkt_cmd + pkt_cmd_len - 1]

\* entry_verdict accepting more than 5 slashes
entry_verdict_at_least_5(slashes) ==
    IF slashes < 5 THEN CVS_ENTRY_INVALID ELSE CVS_ENTRY_VALID

\* lines 405-410: the verdict once the scan of the argument is over
entry_verdict(slashes) ==
    IF slashes # 5 THEN CVS_ENTRY_INVALID ELSE CVS_ENTRY_VALID

\* lines 382-403: the loop of CvsValidateEntry, from entry_arg with the
\* slashes counted so far
entry_loop(data, entry_arg, end_arg, slashes) ==
    LET loop[st \in (0 .. end_arg + 1) \X (0 .. end_arg + 1)] ==
            LET p  == st[1]
                n  == st[2]
                b  == Byte(data, p)
                m  == memchr(data, p, "/", end_arg - p)
            IN  IF ~(p < end_arg)
                THEN [ret |-> entry_verdict(n), reads |-> {}]
                ELSE IF n = 3 /\ b # "/" /\ b # "+"
                THEN [ret |-> CVS_ENTRY_INVALID, reads |-> {p}]
                ELSE IF b # "/"
                THEN IF m.p = NULL
                     THEN [ret |-> entry_verdict(n), reads |-> {p} \cup m.reads]
                     ELSE [loop[<<Deref(m.p) + 1, n + 1>>]
                               EXCEPT !.reads = @ \cup {p} \cup m.reads]
                ELSE [loop[<<p + 1, n + 1>>] EXCEPT !.reads = @ \cup {p}]
    IN  loop[<<entry_arg, slashes>>]

\* CvsValidateEntry taking an empty argument for a valid one
CvsValidateEntry_empty_valid(data, entry_arg, end_arg) ==
    IF entry_arg = NULL \/ end_arg = NULL \/ entry_arg = end_arg
    THEN [ret |-> CVS_ENTRY_VALID, reads |-> {}]
    ELSE entry_loop(data, Deref(entry_arg), Deref(end_arg), 0)

\* CvsValidateEntry(entry_arg, end_arg); NULL + n is NULL
CvsValidateEntry(data, entry_arg, end_arg) ==
    IF entry_arg = NULL \/ end_arg = NULL
    THEN [ret |-> CVS_ENTRY_VALID, reads |-> {}]
    ELSE entry_loop(data, Deref(entry_arg), Deref(end_arg), 0)

\* the pointer p + n
PtrAdd(p, n) == IF p = NULL THEN NULL ELSE Ptr(Deref(p) + n)

\* more_data true also when the line ends the payload
more_data_or_end(eol, end) == eol <= end

\* line 253: data follows the line
more_data(eol, end) == eol < end

\* One iteration of the loop of CvsDecode, at line ln < end: whether it
\* alerts, where the next line starts, and what it read.
CvsDecodeLine(data, data_len, ln, cvs_rule_option) ==
    LET end  == data_len
        e    == CvsGetEOL(data, ln, end)
        command == CvsGetCommand(data, ln, e.eolm)
        cmp  == CvsCmdCompare(CVS_ENTRY_STR, data, Deref(command.cmd_str),
                              command.cmd_str_len)
        v    == CvsValidateEntry(data, command.cmd_arg,
                                 PtrAdd(command.cmd_arg, command.cmd_arg_len))
        base == e.reads \cup command.reads
    IN  IF cvs_rule_option.type # CVS_INVALID_ENTRY
        THEN [alert |-> FALSE, eol |-> e.eol, reads |-> base]
        ELSE IF cmp.ret # 0
        THEN [alert |-> FALSE, eol |-> e.eol, reads |-> base \cup cmp.reads]
        ELSE [alert |-> v.ret = CVS_ENTRY_INVALID /\ more_data(e.eol, end),
              eol   |-> e.eol,
              reads |-> base \cup cmp.reads \cup v.reads]

(***************************************************************************)
(* Packets                                                                 *)
(***************************************************************************)
MaxArgLen == 6      \* longest enumerated argument of a command

RECURSIVE SeqsUpTo(_, _)
SeqsUpTo(S, n) ==
    IF n = 0 THEN {<<>>}
    ELSE LET shorter == SeqsUpTo(S, n - 1)
         IN  shorter \cup {Append(q, x) : q \in shorter, x \in S}

Names == {CVS_ENTRY_STR,
          <<"E", "N", "T", "R", "Y">>,
          <<"e", "n", "t", "r", "y">>,
          <<"E", "n", "t", "r">>,
          <<"E", "n", "t", "r", "y", "y">>}

Args == SeqsUpTo({"/", "+", "x"}, MaxArgLen)

FirstLines == Names \cup {n \o <<CVS_COMMAND_SEPARATOR>> \o a : n \in Names, a \in Args}

Tails == {<<>>,
          <<"\n">>,
          <<"\n", "x">>,
          <<"\n", "E", "n", "t", "r", "y", " ", "/", "\n", "x">>}

\* "Entry /cvs.c/1.5///\nUnchanged\n"
ValidScenario ==
    <<"E", "n", "t", "r", "y", " ", "/", "c", "v", "s", ".", "c", "/", "1",
      ".", "5", "/", "/", "/", "\n", "U", "n", "c", "h", "a", "n", "g", "e",
      "d", "\n">>

\* "Entry /cvs.cXX1.5///\nModified\n"
InvalidScenario ==
    <<"E", "n", "t", "r", "y", " ", "/", "c", "v", "s", ".", "c", "X", "X",
      "1", ".", "5", "/", "/", "/", "\n", "M", "o", "d", "i", "f", "i", "e",
      "d", "\n">>

Payloads ==
    {l \o t : l \in FirstLines, t \in Tails}
        \cup {<<>>, <<"\n">>, <<" ">>, ValidScenario, InvalidScenario}

TcpPacket(payload) ==
    Ptr([tcph |-> Ptr("tcph"), data |-> Ptr(payload), dsize |-> Len(payload)])

Packets ==
    {TcpPacket(d) : d \in Payloads}
        \cup {NULL,
              Ptr([tcph |-> NULL, data |-> Ptr(InvalidScenario),
                   dsize |-> Len(InvalidScenario)]),
              Ptr([tcph |-> Ptr("tcph"), data |-> NULL, dsize |-> 0]),
              Ptr([tcph |-> Ptr("tcph"), data |-> NULL, dsize |-> 3])}

(***************************************************************************)
(* CvsOption::eval                                                         *)
(***************************************************************************)
\* nothing_to_decode without the test of tcph
nothing_to_decode_whatever_tcph(p) ==
    IF p = NULL THEN TRUE
    ELSE Deref(p).data = NULL \/ Deref(p).dsize = 0

\* lines 182-190: eval returns before decoding
nothing_to_decode(p) ==
    IF p = NULL THEN TRUE
    ELSE Deref(p).tcph = NULL \/ Deref(p).data = NULL \/ Deref(p).dsize = 0

\* eval up to the call of CvsDecode
eval ==
    /\ pc = "idle"
    /\ \E p \in Packets :
        /\ packet' = p
        /\ IF nothing_to_decode(p)
           THEN pc' = "done" /\ rval' = DETECTION_OPTION_NO_MATCH
           ELSE pc' = "scan" /\ rval' = "none"
    /\ reads' = {}
    /\ steps' = 0
    /\ line' = 0
    /\ UNCHANGED config
    /\ UNCHANGED fileVars
    /\ UNCHANGED optVars
    /\ UNCHANGED limVars

\* One iteration of the loop of CvsDecode, entered when line < end; the loop
\* test that follows it, and the return of eval when the scan is over.
decode ==
    /\ pc = "scan"
    /\ LET data     == Deref(Deref(packet).data)
           data_len == Deref(packet).dsize
           d        == CvsDecodeLine(data, data_len, line, config)
       IN  IF ~(line < data_len)
           THEN /\ pc' = "done"
                /\ rval' = DETECTION_OPTION_NO_MATCH
                /\ UNCHANGED <<reads, steps, line>>
           ELSE /\ reads' = reads \cup d.reads
                /\ steps' = steps + 1
                /\ line' = d.eol
                /\ IF d.alert
                   THEN pc' = "done" /\ rval' = DETECTION_OPTION_MATCH
                   ELSE IF d.eol < data_len
                   THEN pc' = "scan" /\ rval' = rval
                   ELSE pc' = "done" /\ rval' = DETECTION_OPTION_NO_MATCH
    /\ UNCHANGED <<packet, config>>
    /\ UNCHANGED fileVars
    /\ UNCHANGED optVars
    /\ UNCHANGED limVars

CvsIdle ==
    /\ packet = NULL
    /\ pc = "idle"
    /\ line = 0
    /\ rval = "none"
    /\ reads = {}
    /\ steps = 0

(***************************************************************************)
(* CvsOption objects: construction from the text of a rule, hash, equality *)
(***************************************************************************)
s_name == "cvs"

CVS_CONFIG_DELIMITERS == {" ", "\t", "\n"}

CVS_CONF_INVALID_ENTRY_STR ==
    <<"i", "n", "v", "a", "l", "i", "d", "-", "e", "n", "t", "r", "y">>

CVS_END_OF_ENUM == 2

UpperCase == <<"A", "B", "C", "D", "E", "F", "G", "H", "I", "J", "K", "L", "M",
               "N", "O", "P", "Q", "R", "S", "T", "U", "V", "W", "X", "Y", "Z">>
LowerCase == <<"a", "b", "c", "d", "e", "f", "g", "h", "i", "j", "k", "l", "m",
               "n", "o", "p", "q", "r", "s", "t", "u", "v", "w", "x", "y", "z">>

tolower(c) ==
    IF \E i \in 1 .. 26 : UpperCase[i] = c
    THEN LowerCase[CHOOSE i \in 1 .. 26 : UpperCase[i] = c]
    ELSE c

\* strcmp(s1, s2) == 0
strcmp_equal(s1, s2) == s1 = s2

\* strcasecmp(s1, s2) == 0
strcasecmp_equal(s1, s2) ==
    /\ Len(s1) = Len(s2)
    /\ \A i \in 1 .. Len(s1) : tolower(s1[i]) = tolower(s2[i])

\* q without the separators it starts with
SkipSeparators(q, sep_chars) ==
    LET rest == {i \in 1 .. Len(q) : q[i] \notin sep_chars}
    IN  IF rest = {} THEN <<>> ELSE SubSeq(q, Min(rest), Len(q))

\* q without the separators it ends with
TrimSeparators(q, sep_chars) ==
    LET rest == {i \in 1 .. Len(q) : q[i] \notin sep_chars}
    IN  IF rest = {} THEN <<>>
        ELSE SubSeq(q, 1, CHOOSE i \in rest : \A k \in rest : k <= i)

\* the tokens of q, which neither starts nor ends with a separator: at most
\* max_toks of them, the last one holding all that is left
RECURSIVE SplitTokens(_, _, _)
SplitTokens(q, sep_chars, max_toks) ==
    LET seps == {i \in 1 .. Len(q) : q[i] \in sep_chars}
    IN  IF q = <<>> THEN <<>>
        ELSE IF max_toks <= 1 \/ seps = {} THEN <<q>>
        ELSE <<SubSeq(q, 1, Min(seps) - 1)>>
                 \o SplitTokens(SkipSeparators(SubSeq(q, Min(seps), Len(q)), sep_chars),
                                sep_chars, max_toks - 1)

\* mSplit(str, sep_chars, max_toks, &num_toks, 0): the tokens; num_toks is
\* their number
mSplit(str, sep_chars, max_toks) ==
    IF str = NULL THEN <<>>
    ELSE SplitTokens(TrimSeparators(SkipSeparators(Deref(str), sep_chars), sep_chars),
                     sep_chars, max_toks)

\* ParseError reports the error of the rule being loaded and returns
NoError == <<>>
ParseError(format, arg) == <<format, arg>>

\* cvs_parse comparing the keyword with strcmp
cvs_parse_case_sensitive(rule_args, cvs_rule_option) ==
    LET toks     == mSplit(rule_args, CVS_CONFIG_DELIMITERS, 2)
        num_toks == Len(toks)
    IN  IF num_toks = 1
        THEN IF strcmp_equal(toks[1], CVS_CONF_INVALID_ENTRY_STR)
             THEN [cvs_rule_option |-> [cvs_rule_option EXCEPT !.type = CVS_INVALID_ENTRY],
                   error |-> NoError]
             ELSE [cvs_rule_option |-> cvs_rule_option,
                   error |-> ParseError("Invalid argument specified for CVS rule: %s",
                                        toks[1])]
        ELSE [cvs_rule_option |-> cvs_rule_option,
              error |-> ParseError("No or wrong number of arguments specified for CVS rule",
                                   <<>>)]

\* cvs_parse: the rule option afterwards and the error reported
cvs_parse(rule_args, cvs_rule_option) ==
    LET toks     == mSplit(rule_args, CVS_CONFIG_DELIMITERS, 2)
        num_toks == Len(toks)
    IN  IF num_toks = 1
        THEN IF strcasecmp_equal(toks[1], CVS_CONF_INVALID_ENTRY_STR)
             THEN [cvs_rule_option |-> [cvs_rule_option EXCEPT !.type = CVS_INVALID_ENTRY],
                   error |-> NoError]
             ELSE [cvs_rule_option |-> cvs_rule_option,
                   error |-> ParseError("Invalid argument specified for CVS rule: %s",
                                        toks[1])]
        ELSE [cvs_rule_option |-> cvs_rule_option,
              error |-> ParseError("No or wrong number of arguments specified for CVS rule",
                                   <<>>)]

\* CvsOption::CvsOption(c)
CvsOption(c) == [name |-> s_name, config |-> c]

\* cvs_ctor: the object returned and the error reported meanwhile
cvs_ctor(data) ==
    LET parsed == cvs_parse(data, [type |-> 0])
    IN  [option |-> Ptr(CvsOption(parsed.cvs_rule_option)), error |-> parsed.error]

\* mix_str and final are the mixing steps of the hash: the words they leave
\* are a function of the words and the string they are given
mix_str(a, b, c, s) == <<"mix_str", a, b, c, s>>
final(abc) == <<"final", abc>>

\* CvsOption::hash
hash(this) ==
    LET data == this.config
        a    == data.type
        b    == 0
        c    == 0
    IN  final(mix_str(a, b, c, this.name))

\* operator== comparing the names only
operator_eq_ignoring_type(this, ips) == strcmp_equal(this.name, ips.name)

\* CvsOption::operator==
operator_eq(this, ips) ==
    IF ~strcmp_equal(this.name, ips.name) THEN FALSE
    ELSE LET left  == this.config
             right == ips.config
         IN  left.type = right.type

\* an IpsOption of another kind
OtherOption == [name |-> "content"]

\* the text of the rules given to cvs_ctor
Text(pre, word, post) == Ptr(pre \o word \o post)

UpperSeq(q) ==
    [i \in 1 .. Len(q) |->
        IF \E k \in 1 .. 26 : LowerCase[k] = q[i]
        THEN UpperCase[CHOOSE k \in 1 .. 26 : LowerCase[k] = q[i]] ELSE q[i]]

Keywords ==
    {CVS_CONF_INVALID_ENTRY_STR,
     UpperSeq(CVS_CONF_INVALID_ENTRY_STR),
     <<"I">> \o SubSeq(CVS_CONF_INVALID_ENTRY_STR, 2, 13),
     SubSeq(CVS_CONF_INVALID_ENTRY_STR, 1, 7),
     CVS_CONF_INVALID_ENTRY_STR \o <<"x">>}

RuleArgs ==
    {Text(pre, word, post) :
        pre  \in {<<>>, <<"\t", " ">>},
        word \in Keywords,
        post \in {<<>>, <<"\n">>, <<" ", "x">>}}
        \cup {NULL, Ptr(<<>>), Ptr(<<" ", "\n">>)}

NotBuilt == [how |-> "none", rule_args |-> NULL, option |-> NULL, error |-> NoError]

\* the rule loader builds an option from the text of a rule
CvsCtor ==
    \E i \in 1 .. 2, data \in RuleArgs :
        LET made == cvs_ctor(data)
        IN  /\ built' = [built EXCEPT ![i] =
                            [how |-> "cvs_ctor", rule_args |-> data,
                             option |-> made.option, error |-> made.error]]
            /\ same' = NULL
            /\ UNCHANGED fileVars
            /\ UNCHANGED cvsVars
            /\ UNCHANGED limVars

\* an option is built from a CvsRuleOption, or an option of another kind
NewOption ==
    \E i \in 1 .. 2,
       o \in {CvsOption([type |-> t]) : t \in 0 .. CVS_END_OF_ENUM} \cup {OtherOption} :
        /\ built' = [built EXCEPT ![i] =
                        [how |-> "new", rule_args |-> NULL,
                         option |-> Ptr(o), error |-> NoError]]
        /\ same' = NULL
        /\ UNCHANGED fileVars
        /\ UNCHANGED cvsVars
        /\ UNCHANGED limVars

\* the rule loader looks for a duplicate: hash and operator== of the first
\* option, a CvsOption, against the second
Compare ==
    /\ built[1].option # NULL
    /\ built[2].option # NULL
    /\ Deref(built[1].option).name = s_name
    /\ LET this == Deref(built[1].option)
           ips  == Deref(built[2].option)
       IN  same' = Ptr([eq       |-> operator_eq(this, ips),
                        hash     |-> hash(this),
                        ips_hash |-> IF ips.name = s_name
                                     THEN Ptr(hash(ips)) ELSE NULL])
    /\ UNCHANGED built
    /\ UNCHANGED fileVars
    /\ UNCHANGED cvsVars
    /\ UNCHANGED limVars

OptIdle ==
    /\ built = [i \in 1 .. 2 |-> NotBuilt]
    /\ same = NULL

(***************************************************************************)
(* Specifications                                                          *)
(***************************************************************************)
Init ==
    /\ FileInit
    /\ CvsIdle
    /\ OptIdle
    /\ limit = NULL
    /\ config = [type |-> CVS_INVALID_ENTRY]

Next == TypeChunk \/ SignatureChunk \/ FileSigSha256Set \/ NullContext

Spec == Init /\ [][Next]_vars

InitCvs ==
    /\ context = FreshContext(NULL)
    /\ nops = 0
    /\ last = NoOp
    /\ stream = NoStream
    /\ crashed = FALSE
    /\ CvsIdle
    /\ OptIdle
    /\ limit = NULL
    /\ config \in {[type |-> CVS_INVALID_ENTRY], [type |-> 0]}

NextCvs == eval \/ decode

SpecCvs == InitCvs /\ [][NextCvs]_vars

\* the loop of CvsDecode makes its next iteration
iterate == pc = "scan" /\ steps' = steps + 1

\* eval is a sequential call: while it scans, the loop of CvsDecode keeps
\* running
SpecCvsLive == SpecCvs /\ WF_steps(iterate)

InitOpt ==
    /\ context = FreshContext(NULL)
    /\ nops = 0
    /\ last = NoOp
    /\ stream = NoStream
    /\ crashed = FALSE
    /\ CvsIdle
    /\ OptIdle
    /\ limit = NULL
    /\ config = [type |-> CVS_INVALID_ENTRY]

NextOpt == CvsCtor \/ NewOption \/ Compare

\* the largest int
INT_MAX == IntMod \div 2 - 1

\* the largest uint64_t
UINT64_MAX == U64Mod - 1

\* a context at any processed_bytes, without configuration or with any depth
\* (the two depths between them take every value)
AnyContext ==
    {[FreshContext(c) EXCEPT !.processed_bytes = p] :
        p \in 0 .. UINT64_MAX,
        c \in {NULL} \cup {Ptr([file_type_depth |-> d,
                                 file_signature_depth |-> UINT64_MAX - d]) :
                              d \in 0 .. UINT64_MAX}}

\* one call of the depth limiter, for any kind and any length from 0 on
Limit ==
    \E type \in FileProcessType, data_size \in 0 .. INT_MAX :
        /\ limit = NULL
        /\ limit' = Ptr([type |-> type, data_size |-> data_size,
                         ret |-> get_data_size_from_depth_limit(context, type,
                                                                data_size)])
        /\ UNCHANGED fileVars
        /\ UNCHANGED cvsVars
        /\ UNCHANGED optVars

InitLimit ==
    /\ context \in AnyContext
    /\ nops = 0
    /\ last = NoOp
    /\ stream = NoStream
    /\ crashed = FALSE
    /\ CvsIdle
    /\ OptIdle
    /\ limit = NULL
    /\ config = [type |-> CVS_INVALID_ENTRY]

NextLimit == Limit

SpecLimit == InitLimit /\ [][NextLimit]_vars

SpecOpt == InitOpt /\ [][NextOpt]_vars

(***************************************************************************)
(* Properties of the file context                                          *)
(***************************************************************************)
HasConfig == context.file_config # NULL
file_type_depth      == Deref(context.file_config).file_type_depth
file_signature_depth == Deref(context.file_config).file_signature_depth

\* the size of the chunk a step delivered: what processed_bytes advanced by
Delivered == context'.processed_bytes - context.processed_bytes

\* C1: once file_type_id is UNKNOWN or a type, no operation changes it and
\* no call of file_type_id reaches the classifier.
C1_TypeIdFinal ==
    [][context.file_type_id # SNORT_FILE_TYPE_CONTINUE
          => /\ context'.file_type_id = context.file_type_id
             /\ last'.find = NoCall]_vars

\* a chunk was given to file_type_id after the type had been identified
C1_Witness ==
    /\ last.op = "file_type_id"
    /\ last.find = NoCall
    /\ context.file_type_id = FILE_TYPE_A

\* C2 as stated: with the positions marking one stream, processed_bytes is
\* within file_type_depth after type identification and within
\* file_signature_depth after signature computation.
C2_ProcessedWithinDepth ==
    (HasConfig /\ stream.shape \in {"open", "closed"})
        => /\ last.op = "file_type_id" => context.processed_bytes <= file_type_depth
           /\ last.op = "file_signature_sha256"
                 => context.processed_bytes <= file_signature_depth

\* C2 amended: the bytes handed to the classifier and to the digest end within
\* the depth: processed_bytes before the chunk plus the length handed over is
\* at most file_type_depth, respectively file_signature_depth.
C2_HandedWithinDepth ==
    [][HasConfig
          => /\ last'.find # NoCall
                  => context.processed_bytes + last'.find[1] <= file_type_depth
             /\ last'.update # NoCall
                  => context.processed_bytes + last'.update[1]
                         <= file_signature_depth]_vars

\* the depth cut a chunk: 5 of the 10 bytes of the first chunk were handed on
C2_Witness ==
    /\ HasConfig
    /\ nops = 1
    /\ context.processed_bytes = 10
    /\ last.update = Called(5)

WholeSignature(B) ==
    file_signature_sha256(FreshContext(context.file_config), B, Len(B),
                          SNORT_FILE_FULL).ctx.sha256

\* C4: a stream delivered as Start, Middle*, End (no chunk cut by the depth)
\* leaves the signature that the same bytes leave as one FULL chunk.
C4_DigestDeterminism ==
    (stream.shape = "closed" /\ stream.exact)
        => context.sha256 = WholeSignature(stream.bytes)

\* a stream of three chunks, Start Middle End, was finalised
C4_Witness ==
    /\ stream.shape = "closed"
    /\ stream.exact
    /\ nops = 3
    /\ last.position = SNORT_FILE_END
    /\ Len(stream.bytes) = 4

\* the lengths a caller asks for
Lengths == 0 .. Len(BigChunk)

\* the rule of the depth limiter, in plain arithmetic
LimitRule(has_config, type, processed_bytes, max_depth, requested_len) ==
    IF ~has_config \/ type \notin {SNORT_FILE_TYPE_ID, SNORT_FILE_SHA256}
    THEN requested_len
    ELSE IF processed_bytes > max_depth THEN -1
    ELSE IF processed_bytes + requested_len > max_depth
         THEN max_depth - processed_bytes
    ELSE requested_len

C10_Rule ==
    \A type \in FileProcessType, n \in Lengths :
        get_data_size_from_depth_limit(context, type, n)
            = LimitRule(HasConfig, type, context.processed_bytes,
                        IF ~HasConfig THEN 0
                        ELSE IF type = SNORT_FILE_TYPE_ID THEN file_type_depth
                        ELSE file_signature_depth,
                        n)

C10_Fed ==
    /\ last'.find # NoCall
         => last'.find = Called(get_data_size_from_depth_limit(
                                    context, SNORT_FILE_TYPE_ID, Delivered))
    /\ last'.update # NoCall
         => last'.update = Called(get_data_size_from_depth_limit(
                                      context, SNORT_FILE_SHA256, Delivered))

\* C10: the limiter returns -1 exactly when processed_bytes > max_depth, else
\* max_depth - processed_bytes when the request passes the depth, else the
\* request; without a configuration or for another kind it returns the request;
\* and the classifier and the digest are given exactly that many bytes.
C10_DepthLimiter == []C10_Rule /\ [][C10_Fed]_vars

\* the 10-byte Start chunk at depth 5: the classifier was called with length 5
C10_Witness ==
    /\ HasConfig
    /\ nops = 1
    /\ last.op = "file_type_id"
    /\ last.position = SNORT_FILE_START
    /\ context.processed_bytes = 10
    /\ file_type_depth = 5
    /\ last.find = Called(5)

\* C13: file_type_id and file_signature_sha256 never fault, whether they are
\* given no context or a context without file_config: no operation
\* dereferences a NULL pointer.
C13_AbsentInputsNeverFault == ~crashed

\* C16: after file_type_id is given an END or a FULL chunk, on any context,
\* file_type_id is not CONTINUE; where it was CONTINUE before, it is UNKNOWN
\* if the depth limit stopped the call or the classifier answered CONTINUE,
\* and the classifier's answer otherwise.
C16_FinalChunkConcludes ==
    [][(/\ last'.op = "file_type_id"
        /\ last'.position \in {SNORT_FILE_END, SNORT_FILE_FULL})
          => /\ context'.file_type_id # SNORT_FILE_TYPE_CONTINUE
             /\ context.file_type_id = SNORT_FILE_TYPE_CONTINUE
                  => context'.file_type_id =
                         IF last'.find = NoCall
                              \/ last'.answer = SNORT_FILE_TYPE_CONTINUE
                         THEN SNORT_FILE_TYPE_UNKNOWN ELSE last'.answer]_vars

\* the signature a FULL chunk of the bytes B gives, no depth applying
DigestOf(B) == sha256_full(FreshContext(NULL), B, Len(B)).sha256

\* the bytes of a digest
Absorbed(md) == {md.msg[i] : i \in 1 .. Len(md.msg)}

\* C17: the signature an END chunk finalises is the digest of the bytes fed to
\* the digest state since it was created, also when a MIDDLE or END chunk
\* created that state: what a digest started by START or FULL gives for them.
C17_MidstreamDigestInitialised ==
    (/\ last.op = "file_signature_sha256"
     /\ last.position = SNORT_FILE_END
     /\ last.update # NoCall
     /\ PAD \notin Absorbed(Deref(context.sha256)))
        => /\ context.sha256 = DigestOf(Deref(context.sha256).msg)
           /\ nops = 1 => Deref(context.sha256).msg
                              = SubSeq(BigChunk, 1, last.update[1])

\* C18: once the END or FULL chunk of a stream has finalised the signature,
\* the context holds no digest state that a later MIDDLE or END chunk could
\* feed.
C18_FinalConsumesDigest ==
    (/\ last.op = "file_signature_sha256"
     /\ last.position \in {SNORT_FILE_END, SNORT_FILE_FULL}
     /\ last.update # NoCall
     /\ stream.shape = "closed")
        => context.file_signature_context = NULL

\* C19: with file_type_id CONTINUE, a call of file_type_id at processed_bytes
\* past file_type_depth sets UNKNOWN, does not call the classifier and leaves
\* file_type_context alone, whatever the position; at processed_bytes equal to
\* file_type_depth the classifier is called, with length 0.
C19_DepthExceeded ==
    [][(/\ last'.op = "file_type_id"
        /\ HasConfig
        /\ context.file_type_id = SNORT_FILE_TYPE_CONTINUE)
          => /\ context.processed_bytes > file_type_depth
                  => /\ context'.file_type_id = SNORT_FILE_TYPE_UNKNOWN
                     /\ last'.find = NoCall
                     /\ context'.file_type_context = context.file_type_context
             /\ context.processed_bytes = file_type_depth
                  => last'.find = Called(0)]_vars

\* a 2-byte chunk reached the depth 2, and the classifier was then called with
\* length 0 for the 10-byte chunk
C19_Witness ==
    /\ HasConfig
    /\ file_type_depth = 2
    /\ nops = 2
    /\ last.op = "file_type_id"
    /\ last.find = Called(0)
    /\ context.processed_bytes = 12

\* the positions a caller can pass, a value outside the four markers included
AnyPosition == FilePosition \cup {SNORT_FILE_POSITION_UNKNOWN}

\* C20: at processed_bytes past file_signature_depth file_signature_sha256
\* changes nothing in the context and does not call SHA256_Update, whatever
\* the position and the chunk: the digest state, sha256, file_type_id and
\* processed_bytes stay as they are.
C20_Frozen ==
    (HasConfig /\ context.processed_bytes > file_signature_depth)
        => \A file_data \in Chunks, position \in AnyPosition :
               file_signature_sha256(context, file_data, Len(file_data), position)
                   = [ctx |-> context, update |-> NoCall]

C20_Stopped ==
    (/\ last'.op = "file_signature_sha256"
     /\ HasConfig
     /\ context.processed_bytes > file_signature_depth)
        => /\ last'.update = NoCall
           /\ context' = [context EXCEPT !.processed_bytes = context'.processed_bytes]

C20_SignatureStopChangesNothing == []C20_Frozen /\ [][C20_Stopped]_vars

\* an END chunk came past the depth: no signature was set
C20_Witness ==
    /\ HasConfig
    /\ context.processed_bytes > file_signature_depth + Len(BigChunk)
    /\ last.op = "file_signature_sha256"
    /\ last.position = SNORT_FILE_END
    /\ last.update = NoCall
    /\ context.sha256 = NULL

(***************************************************************************)
(* Properties of the CVS option.  The payload is read here as the text it  *)
(* is: lines ended by the delimiter, each a command name and, after the    *)
(* first separator, an argument.                                           *)
(***************************************************************************)
\* eval got a packet it decodes
Decoded ==
    /\ packet # NULL
    /\ Deref(packet).tcph # NULL
    /\ Deref(packet).data # NULL
    /\ Deref(packet).dsize # 0

Payload == Deref(Deref(packet).data)

\* the lines of d: their text, and whether a byte follows their delimiter
LinesOf(d) ==
    LET n      == Len(d)
        delims == {i \in 1 .. n : d[i] = CVS_COMMAND_DELIMITER}
        starts == {1} \cup {i + 1 : i \in {k \in delims : k + 1 <= n}}
        stop(f) == IF \E i \in delims : i >= f
                   THEN Min({i \in delims : i >= f}) ELSE n + 1
    IN  {[text |-> SubSeq(d, f, stop(f) - 1), more |-> stop(f) + 1 <= n] :
            f \in starts}

Separators(text) == {i \in 1 .. Len(text) : text[i] = CVS_COMMAND_SEPARATOR}

NameOf(text) ==
    IF Separators(text) = {} THEN text
    ELSE SubSeq(text, 1, Min(Separators(text)) - 1)

\* the argument of a line: NULL when the line has no separator
ArgOf(text) ==
    IF Separators(text) = {} THEN NULL
    ELSE Ptr(SubSeq(text, Min(Separators(text)) + 1, Len(text)))

\* what CvsValidateEntry returns for an argument given on its own
Judged(arg) ==
    IF arg = NULL THEN CvsValidateEntry(<<>>, NULL, NULL).ret
    ELSE CvsValidateEntry(Deref(arg), Ptr(0), Ptr(Len(Deref(arg)))).ret

\* exactly 5 '/' and the byte right after the 3rd '/' is '/' or '+'
WellFormedEntry(A) ==
    LET slashes == {i \in 1 .. Len(A) : A[i] = "/"}
        third   == CHOOSE i \in slashes :
                       Cardinality({k \in slashes : k <= i}) = 3
    IN  /\ Cardinality(slashes) = 5
        /\ third + 1 <= Len(A)
        /\ A[third + 1] \in {"/", "+"}

\* C5: for a non-empty argument CvsValidateEntry returns CVS_ENTRY_VALID if and
\* only if it holds exactly 5 '/' and the byte after the 3rd is '/' or '+'.
C5_ValidateEntry ==
    Decoded =>
        \A l \in LinesOf(Payload) :
            (ArgOf(l.text) # NULL /\ Deref(ArgOf(l.text)) # <<>>)
                => (Judged(ArgOf(l.text)) = CVS_ENTRY_VALID
                        <=> WellFormedEntry(Deref(ArgOf(l.text))))

EntryLine(arg) == CVS_ENTRY_STR \o <<CVS_COMMAND_SEPARATOR>> \o arg

\* "Entry ///+//" followed by another line was scanned and not flagged
C5_Witness ==
    /\ packet = TcpPacket(EntryLine(<<"/", "/", "/", "+", "/", "/">>) \o <<"\n", "x">>)
    /\ config.type = CVS_INVALID_ENTRY
    /\ pc = "done"
    /\ rval = DETECTION_OPTION_NO_MATCH

\* a line that makes the decoder alert
Flagged(l) ==
    /\ NameOf(l.text) = CVS_ENTRY_STR
    /\ Judged(ArgOf(l.text)) = CVS_ENTRY_INVALID
    /\ l.more

Finished == pc = "done" /\ Decoded /\ config.type = CVS_INVALID_ENTRY

\* C6: eval returns MATCH if and only if some line is an Entry command whose
\* argument CvsValidateEntry finds invalid and a byte follows the line's
\* delimiter, and NO_MATCH otherwise; so for the two scenario payloads.
C6_DecodeMatch ==
    Finished =>
        /\ rval \in {DETECTION_OPTION_MATCH, DETECTION_OPTION_NO_MATCH}
        /\ rval = DETECTION_OPTION_MATCH
               <=> \E l \in LinesOf(Payload) : Flagged(l)
        /\ Payload = ValidScenario => rval = DETECTION_OPTION_NO_MATCH
        /\ Payload = InvalidScenario => rval = DETECTION_OPTION_MATCH

\* the payload with the 4-slash entry followed by Modified was flagged
C6_Witness ==
    /\ packet = TcpPacket(InvalidScenario)
    /\ pc = "done"
    /\ rval = DETECTION_OPTION_MATCH

\* C7 as stated: a line whose command name is "Entry" in any letter case, with
\* an invalid argument and more data after it, yields MATCH.
C7_CaseInsensitive ==
    (Finished /\ \E l \in LinesOf(Payload) :
                    /\ LowerSeq(NameOf(l.text)) = LowerSeq(CVS_ENTRY_STR)
                    /\ Judged(ArgOf(l.text)) = CVS_ENTRY_INVALID
                    /\ l.more)
        => rval = DETECTION_OPTION_MATCH

\* C7 amended: the command name is compared byte for byte; a payload none of
\* whose lines is named exactly "Entry" yields NO_MATCH, whatever the letter
\* case variants of "Entry" in it.
C7_CaseSensitive ==
    (Finished /\ \A l \in LinesOf(Payload) : NameOf(l.text) # CVS_ENTRY_STR)
        => rval = DETECTION_OPTION_NO_MATCH

\* "ENTRY x" followed by another line was scanned and not flagged
C7_Witness ==
    /\ packet = TcpPacket(<<"E", "N", "T", "R", "Y", " ", "x", "\n", "x">>)
    /\ config.type = CVS_INVALID_ENTRY
    /\ pc = "done"
    /\ rval = DETECTION_OPTION_NO_MATCH

\* C8 as stated: CvsValidateEntry returns CVS_ENTRY_VALID for an absent and for
\* an empty argument, and a payload whose Entry commands have no argument or
\* an empty one never yields MATCH.
C8_EmptyArgumentValid ==
    Decoded =>
        /\ \A l \in LinesOf(Payload) :
               ArgOf(l.text) \in {NULL, Ptr(<<>>)}
                   => Judged(ArgOf(l.text)) = CVS_ENTRY_VALID
        /\ (Finished /\ \A l \in LinesOf(Payload) :
                           NameOf(l.text) = CVS_ENTRY_STR
                               => ArgOf(l.text) \in {NULL, Ptr(<<>>)})
               => rval # DETECTION_OPTION_MATCH

\* C8 amended: CvsValidateEntry returns CVS_ENTRY_VALID for an absent argument
\* and CVS_ENTRY_INVALID for an empty one; a payload whose Entry commands have
\* no argument yields NO_MATCH, and an Entry command with an empty argument
\* followed by more data yields MATCH.
C8_AbsentValidEmptyInvalid ==
    Decoded =>
        /\ \A l \in LinesOf(Payload) :
               /\ ArgOf(l.text) = NULL => Judged(ArgOf(l.text)) = CVS_ENTRY_VALID
               /\ ArgOf(l.text) = Ptr(<<>>)
                      => Judged(ArgOf(l.text)) = CVS_ENTRY_INVALID
        /\ (Finished /\ \A l \in LinesOf(Payload) :
                           NameOf(l.text) = CVS_ENTRY_STR => ArgOf(l.text) = NULL)
               => rval = DETECTION_OPTION_NO_MATCH
        /\ (Finished /\ \E l \in LinesOf(Payload) :
                           /\ NameOf(l.text) = CVS_ENTRY_STR
                           /\ ArgOf(l.text) = Ptr(<<>>)
                           /\ l.more)
               => rval = DETECTION_OPTION_MATCH

\* "Entry " with nothing after the separator, followed by another line, was
\* flagged
C8_Witness ==
    /\ packet = TcpPacket(EntryLine(<<>>) \o <<"\n", "x">>)
    /\ config.type = CVS_INVALID_ENTRY
    /\ pc = "done"
    /\ rval = DETECTION_OPTION_MATCH

\* C9: the decoder reads the payload only at offsets 0 .. dsize - 1.
C9_ReadsInBounds ==
    /\ Decoded => reads \subseteq 0 .. Deref(packet).dsize - 1
    /\ ~Decoded => reads = {}

\* "Entry ///" was scanned to its last byte: the 3rd separator ends the payload
C9_Witness ==
    /\ packet = TcpPacket(EntryLine(<<"/", "/", "/">>))
    /\ config.type = CVS_INVALID_ENTRY
    /\ pc = "done"
    /\ reads = 0 .. 8

\* C11: eval returns NO_MATCH without running CvsDecode and without reading the
\* payload when the packet is NULL, has no TCP header, has no payload pointer
\* or has dsize 0; and what eval returns is MATCH or NO_MATCH.
C11_NothingToDecode ==
    pc = "done" =>
        /\ rval \in {DETECTION_OPTION_MATCH, DETECTION_OPTION_NO_MATCH}
        /\ (\/ packet = NULL
            \/ Deref(packet).tcph = NULL
            \/ Deref(packet).data = NULL
            \/ Deref(packet).dsize = 0)
               => /\ rval = DETECTION_OPTION_NO_MATCH
                  /\ steps = 0
                  /\ reads = {}

\* a packet without TCP header, carrying the payload that is flagged otherwise
C11_Witness ==
    /\ pc = "done"
    /\ packet # NULL
    /\ Deref(packet).tcph = NULL
    /\ Deref(packet).data = Ptr(InvalidScenario)
    /\ rval = DETECTION_OPTION_NO_MATCH
    /\ steps = 0

(***************************************************************************)
(* Properties of the construction of options.  The text of a rule is read  *)
(* here as the tokens it holds: the runs of bytes free of delimiters.      *)
(***************************************************************************)
TokensOf(text) ==
    LET starts == {i \in 1 .. Len(text) :
                      /\ text[i] \notin CVS_CONFIG_DELIMITERS
                      /\ (i = 1 \/ text[i - 1] \in CVS_CONFIG_DELIMITERS)}
        stop(f) == IF \E i \in f .. Len(text) : text[i] \in CVS_CONFIG_DELIMITERS
                   THEN Min({i \in f .. Len(text) :
                                text[i] \in CVS_CONFIG_DELIMITERS})
                   ELSE Len(text) + 1
    IN  {<<f, SubSeq(text, f, stop(f) - 1)>> : f \in starts}

\* one token, the keyword invalid-entry in any letter case
WellFormedClause(rule_args) ==
    /\ rule_args # NULL
    /\ Cardinality(TokensOf(Deref(rule_args))) = 1
    /\ \A t \in TokensOf(Deref(rule_args)) :
           [i \in 1 .. Len(t[2]) |-> tolower(t[2][i])] = CVS_CONF_INVALID_ENTRY_STR

\* C12: cvs_ctor given a malformed clause (no token, more than one, or one
\* that is not invalid-entry) reports an error and returns no option; given a
\* well-formed clause it returns an option and reports nothing.
C12_MalformedYieldsNoOption ==
    \A i \in 1 .. 2 :
        built[i].how = "cvs_ctor" =>
            IF WellFormedClause(built[i].rule_args)
            THEN built[i].option # NULL /\ built[i].error = NoError
            ELSE built[i].option = NULL /\ built[i].error # NoError

\* the two options built
this_option == Deref(built[1].option)
ips_option  == Deref(built[2].option)

\* C14: for two CvsOptions, operator== holds exactly when their names and
\* their types are the same, equal options have equal hashes, and options of
\* the same name and type have the same hash however they were built.
C14_HashEqualsConsistent ==
    same # NULL =>
        /\ Deref(same).eq
              <=> (/\ this_option.name = ips_option.name
                   /\ this_option.config.type = ips_option.config.type)
        /\ ips_option.name = s_name =>
              /\ Deref(same).eq => Deref(same).ips_hash = Ptr(Deref(same).hash)
              /\ this_option.config.type = ips_option.config.type
                     => Deref(same).ips_hash = Ptr(Deref(same).hash)

\* an option built from a rule was found equal to one built from a
\* CvsRuleOption of the same type
C14_Witness ==
    /\ same # NULL
    /\ built[1].how = "cvs_ctor"
    /\ built[2].how = "new"
    /\ this_option.config.type = CVS_INVALID_ENTRY
    /\ Deref(same).eq
    /\ Deref(same).ips_hash = Ptr(Deref(same).hash)

\* C15: two options built by cvs_ctor from well-formed clauses, whatever the
\* letter case of the keyword and the spaces, tabs and newlines around it,
\* are equal and have equal hashes.
C15_TextualVariantsEqual ==
    (/\ same # NULL
     /\ built[1].how = "cvs_ctor"
     /\ built[2].how = "cvs_ctor"
     /\ WellFormedClause(built[1].rule_args)
     /\ WellFormedClause(built[2].rule_args))
        => /\ Deref(same).eq
           /\ Deref(same).ips_hash = Ptr(Deref(same).hash)

\* "invalid-entry" and "\t INVALID-ENTRY\n" gave equal options
C15_Witness ==
    /\ same # NULL
    /\ built[1].how = "cvs_ctor"
    /\ built[2].how = "cvs_ctor"
    /\ built[1].rule_args = Ptr(CVS_CONF_INVALID_ENTRY_STR)
    /\ built[2].rule_args
           = Ptr(<<"\t", " ">> \o UpperSeq(CVS_CONF_INVALID_ENTRY_STR) \o <<"\n">>)
    /\ Deref(same).eq
    /\ Deref(same).ips_hash = Ptr(Deref(same).hash)

(***************************************************************************)
(* Termination of the decoder                                              *)
(***************************************************************************)
\* no delimiter in the payload from the offset ln on
NoDelimiterFrom(ln) ==
    \A i \in ln + 1 .. Len(Payload) : Payload[i] # CVS_COMMAND_DELIMITER

\* the scan is within the payload and has made at most dsize iterations
C21_Bounded ==
    /\ pc = "scan" => line < Deref(packet).dsize
    /\ Decoded => (line <= Deref(packet).dsize /\ steps <= Deref(packet).dsize)
    /\ (pc = "done" /\ Decoded)
          => rval \in {DETECTION_OPTION_MATCH, DETECTION_OPTION_NO_MATCH}

\* an iteration moves line forward, to dsize at most; a line without
\* delimiter is the last: eolm = eol = end and the scan ends in NO_MATCH
C21_Advance ==
    pc = "scan" =>
        /\ line < line'
        /\ line' <= Deref(packet).dsize
        /\ steps' = steps + 1
        /\ NoDelimiterFrom(line) =>
              /\ CvsGetEOL(Payload, line, Deref(packet).dsize).eolm
                     = Deref(packet).dsize
              /\ line' = Deref(packet).dsize
              /\ pc' = "done"
              /\ rval' = DETECTION_OPTION_NO_MATCH

\* C21: CvsDecode terminates on every payload: each iteration moves line
\* strictly forward and not past end, so there are at most dsize iterations
\* and the scan ends in MATCH or in NO_MATCH; a payload without delimiter is
\* one final line with eolm = eol = end.
C21_DecoderTerminates ==
    /\ []C21_Bounded
    /\ [][C21_Advance]_vars
    /\ (pc = "scan" ~> pc = "done")

\* a payload of three lines was scanned to its end in three iterations
C21_Witness ==
    /\ packet = TcpPacket(CVS_ENTRY_STR \o <<"\n", "E", "n", "t", "r", "y", " ",
                                              "/", "\n", "x">>)
    /\ pc = "done"
    /\ steps = 3
    /\ line = Deref(packet).dsize

(***************************************************************************)
(* Range of the depth limiter                                              *)
(***************************************************************************)
\* C22: for a requested length from 0 on, whatever processed_bytes and the
\* depth, the limiter returns -1 or a length from 0 to the requested one, also
\* where processed_bytes + data_size wraps around and where the difference is
\* narrowed to int.
C22_LimitInRange ==
    limit # NULL =>
        \/ Deref(limit).ret = -1
        \/ Deref(limit).ret \in 0 .. Deref(limit).data_size

\* the sum processed_bytes + data_size wrapped around: the length came back
\* as requested
C22_Witness ==
    /\ limit # NULL
    /\ HasConfig
    /\ Deref(limit).type = SNORT_FILE_TYPE_ID
    /\ context.processed_bytes <= file_type_depth
    /\ context.processed_bytes + Deref(limit).data_size > UINT64_MAX
    /\ Deref(limit).ret = Deref(limit).data_size

====
